---- MODULE Spec2Model ----
(***************************************************************************)
(* Resume screening and scoring pipeline of the ATS backend.               *)
(*                                                                         *)
(*   - services/ai_engine.py : _fuzzy_match_skill and                      *)
(*     calculate_deterministic_score (pure functions)                      *)
(*   - services/tasks.py     : the Celery bulk pipeline (process_resume,   *)
(*     aggregate_job_results), one task per resume, run concurrently       *)
(*   - main.py               : process_resumes_background, the sequential  *)
(*     in-process bulk pipeline                                            *)
(*   - services/ai_engine.py : extract_candidate_facts and RateLimiter     *)
(*   - services/job_tracker.py : JobTracker                                *)
(*   - routers/applicants.py : the knockouts of apply_for_job              *)
(*                                                                         *)
(* Texts are sequences of one-character strings.  Years are counted in     *)
(* half years (an integer h stands for h/2 years), so that the 0.5-year    *)
(* knockout buffer and min_experience are exact.  Scores are exact         *)
(* rationals <<numerator, denominator>>.                                   *)
(***************************************************************************)
EXTENDS Integers, Sequences, FiniteSets, Bags, TLC

VARIABLES
    mode,               \* which entry point runs: "celery", "background", "score",
                        \* "results", "screen", "extract", "tracker", "limiter",
                        \* "match"
    jobStatus,          \* jobs.status of the bulk job
    processed_resumes,  \* jobs.processed_resumes
    total_resumes,      \* jobs.total_resumes
    results,            \* jobs.results (NoResults or a batch result)
    applicants,         \* the applicants table, in insertion order
    rs,                 \* per resume: position and locals of its pipeline
    aggQueued,          \* aggregate_job_results tasks waiting in the queue
    aggRunning,         \* bag of the locals of the running aggregate_job_results tasks
    bg,                 \* locals of process_resumes_background
    scoreIn,            \* arguments of calculate_deterministic_score
    scoreOut,           \* its return value
    scoreAgain,         \* the return value of a second call with the same arguments
    extractIn,          \* arguments and service condition of extract_candidate_facts
    extractOut,         \* what the call raised or returned
    jobs,               \* JobTracker.jobs: the job dicts, in insertion order
    created,            \* every create_job call so far: the id returned and the
                        \* company_id passed
    now,                \* datetime.now(), in hours
    clock,              \* time.time(), in half seconds
    last_call_time,     \* rate_limiter.last_call_time
    co,                 \* per coroutine: its position in wait_if_needed
    calls,              \* the times at which a call left wait_if_needed
    matchIn,            \* a required skill and a candidate's skill mapping
    matchOut            \* what the scorer's matcher and the skill floor say of it

vars == <<mode, jobStatus, processed_resumes, total_resumes, results,
          applicants, rs, aggQueued, aggRunning, bg, scoreIn, scoreOut,
          scoreAgain, extractIn, extractOut, jobs, created, now,
          clock, last_call_time, co, calls, matchIn, matchOut>>

batchVars == <<jobStatus, processed_resumes, total_resumes, results,
               applicants, rs, aggQueued, aggRunning, bg>>

scoreVars == <<scoreIn, scoreOut, scoreAgain>>

extractVars == <<extractIn, extractOut>>

trackerVars == <<jobs, created, now>>

limiterVars == <<clock, last_call_time, co, calls>>

matchVars == <<matchIn, matchOut>>

----------------------------------------------------------------------------
(* Generic helpers *)

Min(a, b) == IF a <= b THEN a ELSE b

Max(a, b) == IF a >= b THEN a ELSE b

RECURSIVE SumSeq(_)
SumSeq(s) == IF s = <<>> THEN 0 ELSE Head(s) + SumSeq(Tail(s))

\* Sequences over S of length at most n.
SeqsUpTo(S, n) == UNION {[1..k -> S] : k \in 0..n}

----------------------------------------------------------------------------
(* Text: str.lower(), str.split(), " ".join(), the `in` substring test *)

\* None, for a string-valued field, a text and a dict-valued field.
Null == "None"

NullText == <<"None">>

NullRec == [none |-> TRUE]

IsSpace(c) == c \in {" ", "\n"}

LowerChar(c) ==
    CASE c = "A" -> "a"
      [] c = "B" -> "b"
      [] c = "J" -> "j"
      [] c = "P" -> "p"
      [] c = "S" -> "s"
      [] c = "X" -> "x"
      [] c = "Y" -> "y"
      [] OTHER   -> c

Lower(s) == [i \in 1..Len(s) |-> LowerChar(s[i])]

\* [s.lower() for s in names]
Lower2(names) == [i \in 1..Len(names) |-> Lower(names[i])]

\* " ".join(s.split()): whitespace runs collapse to one space, the ends are
\* stripped.
RECURSIVE CollapseFrom(_, _, _)
CollapseFrom(s, i, pendingSpace) ==
    IF i > Len(s) THEN <<>>
    ELSE IF IsSpace(s[i]) THEN CollapseFrom(s, i + 1, TRUE)
    ELSE (IF pendingSpace THEN <<" ">> ELSE <<>>)
         \o <<s[i]>> \o CollapseFrom(s, i + 1, FALSE)

JoinSplit(s) ==
    LET body == CollapseFrom(s, 1, FALSE)
    IN  IF body # <<>> /\ Head(body) = " " THEN Tail(body) ELSE body

NormalizeText(s) == Lower(JoinSplit(s))

\* Python `a in b` on strings.
IsSubstring(a, b) ==
    \E i \in 0..(Len(b) - Len(a)) :
        \A j \in 1..Len(a) : b[i + j] = a[j]

----------------------------------------------------------------------------
(* Exact rationals <<n, d>>, d > 0 *)

\* round(): nearest integer, a tie goes to the even neighbour.
RoundHalfEven(n, d) ==
    LET q == n \div d
        r == n % d
    IN  IF 2 * r < d THEN q
        ELSE IF 2 * r > d THEN q + 1
        ELSE IF q % 2 = 0 THEN q ELSE q + 1

RatLeq(x, y) == x[1] * y[2] <= y[1] * x[2]

RatEq(x, y) == x[1] * y[2] = y[1] * x[2]

----------------------------------------------------------------------------
(* services/ai_engine.py: the fuzzy skill matcher *)

NoMatch == <<NullText, 0>>

\* {k.lower(): v for k, v in skills_with_years.items()}: a dict keeps the
\* position of the first insertion of a key and the value of the last one.
RECURSIVE LowerKeys(_)
LowerKeys(skills) ==
    IF skills = <<>> THEN <<>>
    ELSE LET n    == Len(skills)
             init == LowerKeys(SubSeq(skills, 1, n - 1))
             k    == Lower(skills[n][1])
             v    == skills[n][2]
         IN  IF \E i \in 1..Len(init) : init[i][1] = k
             THEN [i \in 1..Len(init) |->
                      IF init[i][1] = k THEN <<k, v>> ELSE init[i]]
             ELSE Append(init, <<k, v>>)

\* The first key in iteration order that substring-matches either way.
FirstSubstringKey(req, skills) ==
    LET hits == {i \in 1..Len(skills) :
                    IsSubstring(req, skills[i][1]) \/ IsSubstring(skills[i][1], req)}
    IN  IF hits = {} THEN NoMatch
        ELSE skills[CHOOSE i \in hits : \A j \in hits : i <= j]

\* Variant: the exact key has no priority over an earlier substring match.
_fuzzy_match_skill_NoExact(required, candidate_skills_lower) ==
    FirstSubstringKey(Lower(required), candidate_skills_lower)

_fuzzy_match_skill(required, candidate_skills_lower) ==
    LET req   == Lower(required)
        exact == {i \in 1..Len(candidate_skills_lower) :
                     candidate_skills_lower[i][1] = req}
    IN  IF exact # {}
        THEN <<req, candidate_skills_lower[CHOOSE i \in exact : TRUE][2]>>
        ELSE FirstSubstringKey(req, candidate_skills_lower)

----------------------------------------------------------------------------
(* services/ai_engine.py: calculate_deterministic_score *)

\* Score weights and thresholds.
SkillDepthWeight == 40
JdWeight == 30
ExperienceWeight == 20
ImpactWeight == 10
FullImpactBullets == 5
ShortlistThreshold == 80
ReviewThreshold == 60

\* One year, in half years: max(min_experience, 1.0).
OneYear == 2

EffectiveMin(min_experience) == Max(min_experience, OneYear)

\* depth = min(1.0, candidate_yrs / effective_min), as a numerator over
\* effective_min; 0 when the skill is not matched.
SkillDepthPart(req_skill, candidate_skills_lower, effective_min) ==
    LET m == _fuzzy_match_skill(req_skill, candidate_skills_lower)
    IN  IF m[1] # NullText THEN Min(effective_min, m[2]) ELSE 0

MatchedSkills(required_skills, candidate_skills_lower) ==
    SelectSeq(Lower2(required_skills),
              LAMBDA s : _fuzzy_match_skill(s, candidate_skills_lower)[1] # NullText)

\* avg_depth * 40.0
SkillDepthPoints(required_skills, skills_with_years, min_experience) ==
    LET lower == LowerKeys(skills_with_years)
        em    == EffectiveMin(min_experience)
        parts == [i \in 1..Len(required_skills) |->
                     SkillDepthPart(Lower(required_skills[i]), lower, em)]
    IN  IF required_skills = <<>> THEN <<0, 1>>
        ELSE <<SkillDepthWeight * SumSeq(parts), Len(required_skills) * em>>

\* `if is_met and citation_quote`: a null or empty citation is falsy.
HasCitation(match) == match.citation_quote # NullText /\ match.citation_quote # <<>>

CitationFound(match, raw_resume_text) ==
    IsSubstring(NormalizeText(match.citation_quote), NormalizeText(raw_resume_text))

\* Variant: the model's claim is trusted once it carries a citation.
IsVerified_Unchecked(match, raw_resume_text) ==
    /\ match.is_met
    /\ HasCitation(match)

IsVerified(match, raw_resume_text) ==
    /\ match.is_met
    /\ HasCitation(match)
    /\ CitationFound(match, raw_resume_text)

\* Variant: every match without a citation counts, met or not.
IsHallucination_AnyUncited(match, raw_resume_text) ==
    \/ match.is_met /\ HasCitation(match) /\ ~CitationFound(match, raw_resume_text)
    \/ ~HasCitation(match)

IsHallucination(match, raw_resume_text) ==
    \/ match.is_met /\ HasCitation(match) /\ ~CitationFound(match, raw_resume_text)
    \/ match.is_met /\ ~HasCitation(match)

\* The verification loop runs only `if total_requirements > 0 and raw_resume_text`.
VerifierRuns(matches, raw_resume_text) == Len(matches) > 0 /\ raw_resume_text # <<>>

VerifiedRequirements(matches, raw_resume_text) ==
    IF VerifierRuns(matches, raw_resume_text)
    THEN Cardinality({i \in 1..Len(matches) : IsVerified(matches[i], raw_resume_text)})
    ELSE 0

HallucinationCount(matches, raw_resume_text) ==
    IF VerifierRuns(matches, raw_resume_text)
    THEN Cardinality({i \in 1..Len(matches) : IsHallucination(matches[i], raw_resume_text)})
    ELSE 0

\* (verified_requirements / total_requirements) * 30.0
JdRequirementsPoints(matches, raw_resume_text) ==
    IF VerifierRuns(matches, raw_resume_text)
    THEN <<JdWeight * VerifiedRequirements(matches, raw_resume_text), Len(matches)>>
    ELSE <<0, 1>>

ExperiencePoints(total_years_experience, min_experience) ==
    IF total_years_experience >= min_experience
    THEN <<ExperienceWeight, 1>>
    ELSE <<ExperienceWeight * total_years_experience, EffectiveMin(min_experience)>>

\* min(10.0, (metrics_bullet_count / 5.0) * 10.0)
ImpactPoints(metrics_bullet_count) ==
    IF metrics_bullet_count >= FullImpactBullets
    THEN <<ImpactWeight, 1>>
    ELSE <<ImpactWeight * metrics_bullet_count, FullImpactBullets>>

RatAdd(x, y) == <<x[1] * y[2] + y[1] * x[2], x[2] * y[2]>>

\* Variant: the lower bound of each bucket is exclusive.
StatusBucket_Exclusive(final_score) ==
    IF final_score > ShortlistThreshold THEN "shortlisted"
    ELSE IF final_score > ReviewThreshold THEN "review"
    ELSE "rejected"

StatusBucket(final_score) ==
    IF final_score >= ShortlistThreshold THEN "shortlisted"
    ELSE IF final_score >= ReviewThreshold THEN "review"
    ELSE "rejected"

\* Variant: round(x, -1), the components are rounded to tens of points.
RoundTenths_ToTens(x) == 100 * RoundHalfEven(x[1], 10 * x[2])

\* round(x, 1), in tenths.
RoundTenths(x) == RoundHalfEven(10 * x[1], x[2])

calculate_deterministic_score(candidate, required_skills, min_experience, raw_resume_text) ==
    LET skill  == SkillDepthPoints(required_skills, candidate.skills_with_years,
                                   min_experience)
        jd     == JdRequirementsPoints(candidate.jd_requirement_matches, raw_resume_text)
        exper  == ExperiencePoints(candidate.total_years_experience, min_experience)
        impact == ImpactPoints(candidate.metrics_bullet_count)
        raw    == RatAdd(RatAdd(skill, jd), RatAdd(exper, impact))
        final  == RoundHalfEven(raw[1], raw[2])
    IN  [final_score           |-> final,
         status                |-> StatusBucket(final),
         matched_skills        |-> MatchedSkills(required_skills,
                                      LowerKeys(candidate.skills_with_years)),
         verified_requirements |-> VerifiedRequirements(
                                      candidate.jd_requirement_matches, raw_resume_text),
         total_requirements    |-> Len(candidate.jd_requirement_matches),
         hallucination_count   |-> HallucinationCount(
                                      candidate.jd_requirement_matches, raw_resume_text),
         raw                   |-> raw,
         breakdown             |-> [skill_depth     |-> RoundTenths(skill),
                                    jd_requirements |-> RoundTenths(jd),
                                    experience      |-> RoundTenths(exper),
                                    impact          |-> RoundTenths(impact)]]


----------------------------------------------------------------------------
(* The scorer as a state machine: Init draws the arguments, Score applies *)
(* calculate_deterministic_score to them.                                 *)

MaxSkills == 2      \* entries of skills_with_years
MaxRequired == 2    \* entries of required_skills
MaxMatches == 2     \* entries of jd_requirement_matches

SkillKeys == {<<"p", "y">>, <<"P", "y">>, <<"j">>}

RequiredNames == {<<"p", "y">>, <<"j", "s">>}

SkillYears == {1, 6}

MinExperiences == {0, 3, 6}

TotalYears == {0, 4, 5, 6}

BulletCounts == {0, 1, 5, 7}

Citations == {NullText, <<>>, <<" ">>, <<"A", " ", "\n", "b">>, <<"b", "a">>}

ResumeTexts == {<<>>, <<"a", " ", "b">>, <<"x", "a", "\n", "B", " ">>, <<"b">>}

RequirementMatches == [is_met : BOOLEAN, citation_quote : Citations]

SkillDicts ==
    {d \in SeqsUpTo(SkillKeys \X SkillYears, MaxSkills) :
        \A i, j \in 1..Len(d) : i # j => d[i][1] # d[j][1]}

\* Candidates that vary the skills and the numbers, with a few match lists.
NumericCandidates ==
    [skills_with_years      : SkillDicts,
     total_years_experience : TotalYears,
     metrics_bullet_count   : BulletCounts,
     jd_requirement_matches : {<<>>,
                               <<[is_met |-> TRUE, citation_quote |-> <<"b">>]>>,
                               <<[is_met |-> TRUE, citation_quote |-> <<"b">>],
                                 [is_met |-> TRUE, citation_quote |-> <<"z">>],
                                 [is_met |-> FALSE, citation_quote |-> NullText]>>}]

\* Candidates that vary the requirement matches.
CitingCandidates ==
    [skills_with_years      : {<<>>, <<<<(<<"p", "y">>), 6>>>>},
     total_years_experience : {0, 6},
     metrics_bullet_count   : {0, 5},
     jd_requirement_matches : SeqsUpTo(RequirementMatches, MaxMatches)]

\* Candidates with two skill keys that both substring-match the required
\* skill "js", in either insertion order.
AmbiguousCandidates ==
    [skills_with_years      : {<<<<(<<"j">>), 1>>, <<(<<"s">>), 6>>>>,
                               <<<<(<<"s">>), 6>>, <<(<<"j">>), 1>>>>,
                               <<<<(<<"j">>), 6>>, <<(<<"J", "s", "x">>), 1>>>>},
     total_years_experience : {0, 6},
     metrics_bullet_count   : {0, 5},
     jd_requirement_matches : {<<>>}]

\* Candidates with half a year or a year and a half of experience, for a job
\* that asks for four years.
JuniorCandidates ==
    [skills_with_years      : {<<>>},
     total_years_experience : {1, 3},
     metrics_bullet_count   : {0, 5},
     jd_requirement_matches : {<<>>}]

ScoreInputs ==
    ([candidate : NumericCandidates, required_skills : SeqsUpTo(RequiredNames, MaxRequired),
      min_experience : MinExperiences, raw_resume_text : {<<>>, <<"a", " ", "b">>}])
    \cup
    ([candidate : CitingCandidates, required_skills : {<<(<<"p", "y">>)>>},
      min_experience : {6}, raw_resume_text : ResumeTexts])
    \cup
    ([candidate : AmbiguousCandidates, required_skills : SeqsUpTo(RequiredNames, MaxRequired),
      min_experience : MinExperiences, raw_resume_text : {<<"a", " ", "b">>}])
    \cup
    ([candidate : JuniorCandidates, required_skills : SeqsUpTo(RequiredNames, MaxRequired),
      min_experience : {4 * OneYear}, raw_resume_text : {<<"a", " ", "b">>}])

\* All orders of a dict's items.
ItemOrders(items) ==
    {[i \in 1..Len(items) |-> items[f[i]]] :
        f \in {g \in [1..Len(items) -> 1..Len(items)] :
                  \A i, j \in 1..Len(items) : i # j => g[i] # g[j]}}

\* Variant: a dict is iterated in an arbitrary order, as a set is.
DictItems_AnyOrder(d) == ItemOrders(d)

\* dict.items(): the orders in which a dict is iterated; a dict keeps the
\* insertion order of its keys.
DictItems(d) == {d}

NoScore == NullRec

\* State of the parts of the system that a scorer run does not touch.
NoResults == NullRec

----------------------------------------------------------------------------
(* The bulk job, its resumes and the extraction service's answers *)

NumResumes == 2     \* resumes in the uploaded archive

Resumes == 1..NumResumes

JobId == 1
OtherJobId == 2

\* len(resume_text) < 50
MinTextLen == 50

Emails == {"a@x.io"}

UnknownEmail == "unknown@error.com"

\* Extracted text of a resume: its length before and after strip().
TextShapes ==
    {[raw_len |-> 0, stripped_len |-> 0],
     [raw_len |-> MinTextLen - 1, stripped_len |-> MinTextLen - 1],
     [raw_len |-> MinTextLen, stripped_len |-> MinTextLen - 1],
     [raw_len |-> MinTextLen, stripped_len |-> MinTextLen],
     [raw_len |-> MinTextLen + 10, stripped_len |-> MinTextLen + 10]}

\* The job row: 3 years of experience, one required skill.
JobMinExperience == 6
JobRequiredSkills == <<(<<"P", "y">>)>>

\* The part of a resume's text that citations are checked against.
PipelineResumeText == <<"x", "a", "\n", "B", " ">>

\* What the extraction service can return for a resume (without the email).
StrongFacts ==
    [skills_with_years      |-> <<<<(<<"p", "y">>), 10>>>>,
     total_years_experience |-> 10,
     metrics_bullet_count   |-> 5,
     jd_requirement_matches |-> <<[is_met |-> TRUE,
                                   citation_quote |-> <<"A", " ", "\n", "b">>]>>]

JuniorFacts ==
    [skills_with_years      |-> <<<<(<<"p", "y">>), 6>>>>,
     total_years_experience |-> 4,
     metrics_bullet_count   |-> 5,
     jd_requirement_matches |-> <<>>]

DesignerFacts ==
    [skills_with_years      |-> <<<<(<<"j">>), 12>>>>,
     total_years_experience |-> 12,
     metrics_bullet_count   |-> 2,
     jd_requirement_matches |-> <<>>]

ExtractedFacts == {StrongFacts, JuniorFacts, DesignerFacts}

\* An applicant of another job, stored before the batch starts.
OtherJobApplicant ==
    [job_id |-> OtherJobId, rid |-> 0, email |-> "a@x.io",
     match_score |-> 70, status |-> "review", breakdown |-> NullRec]

NewResume ==
    [pc |-> "queued", text_email |-> Null, outcome |-> "none", facts |-> NullRec,
     scorer_ran |-> FALSE, extract_calls |-> 0, advanced |-> 0, raised |-> FALSE]

IdleBg == [pc |-> "idle", idx |-> 0, candidates |-> <<>>,
           total_processed |-> 0, duplicates_skipped |-> 0,
           knocked_out |-> 0, scored |-> 0]

----------------------------------------------------------------------------
(* Persistence store *)

\* Variant: the lookup forgets the job filter.
IsDuplicate_AnyJob(apps, job_id, email) ==
    \E i \in 1..Len(apps) : apps[i].email = email

\* db.query(Applicant).filter(job_id == job_id, email == pre_scan_email).first()
IsDuplicate(apps, job_id, email) ==
    \E i \in 1..Len(apps) : apps[i].job_id = job_id /\ apps[i].email = email

\* Variant: the unique index is missing.
UniqueViolation_NoIndex(apps, rec) == FALSE

\* UniqueConstraint("job_id", "email", name="uq_applicants_job_email")
UniqueViolation(apps, rec) ==
    \E i \in 1..Len(apps) : apps[i].job_id = rec.job_id /\ apps[i].email = rec.email

\* coalesce(processed_resumes, 0) + 1
_advance_job_progress(processed) == processed + 1

JobApplicants(apps, job_id) == SelectSeq(apps, LAMBDA a : a.job_id = job_id)

\* rows without its i-th element
Without(rows, i) == SubSeq(rows, 1, i - 1) \o SubSeq(rows, i + 1, Len(rows))

\* .order_by(Applicant.match_score.desc()).all(): the orders in which the
\* database may return the rows; rows of equal score come in any order.
RECURSIVE QueryOrders(_)
QueryOrders(rows) ==
    IF rows = <<>> THEN {<<>>}
    ELSE LET top == {i \in 1..Len(rows) :
                        \A j \in 1..Len(rows) : rows[j].match_score <= rows[i].match_score}
         IN  UNION {{<<rows[i]>> \o rest : rest \in QueryOrders(Without(rows, i))} :
                    i \in top}

\* list.sort(key=match_score, reverse=True): stable, highest score first.
RECURSIVE SortByScoreDesc(_)
SortByScoreDesc(cands) ==
    IF cands = <<>> THEN <<>>
    ELSE LET n      == Len(cands)
             sorted == SortByScoreDesc(SubSeq(cands, 1, n - 1))
             x      == cands[n]
             before == {i \in 1..Len(sorted) : sorted[i].match_score >= x.match_score}
             k      == Cardinality(before)
         IN  SubSeq(sorted, 1, k) \o <<x>> \o SubSeq(sorted, k + 1, Len(sorted))

\* Variant: the shortlist is len(candidates) // 10 long, without the floor of 1.
TopTenPercent_NoFloor(cands) ==
    IF cands = <<>> THEN <<>>
    ELSE SubSeq(cands, 1, Len(cands) \div 10)

\* max(1, len(candidates) // 10) of a non-empty list, nothing of an empty one.
TopTenPercent(cands) ==
    IF cands = <<>> THEN <<>>
    ELSE SubSeq(cands, 1, Max(1, Len(cands) \div 10))

CountStatus(cands, status) ==
    Cardinality({i \in 1..Len(cands) : cands[i].status = status})

----------------------------------------------------------------------------
(* services/tasks.py: the Celery pipeline *)

\* The candidate entry built from an applicant row.
CandidateOf(a) ==
    [id |-> a.rid, email |-> a.email, match_score |-> a.match_score,
     status |-> a.status, breakdown |-> a.breakdown]

_build_results_payload(job_processed, apps) ==
    LET candidates  == SortByScoreDesc([i \in 1..Len(apps) |-> CandidateOf(apps[i])])
        shortlisted == TopTenPercent(candidates)
        total_saved == Len(candidates)
    IN  [total_processed    |-> total_saved,
         duplicates_skipped |-> Max(0, job_processed - total_saved),
         knocked_out        |-> 0,
         scored             |-> total_saved,
         shortlisted_count  |-> Len(shortlisted),
         review_count       |-> CountStatus(candidates, "review"),
         rejected_count     |-> CountStatus(candidates, "rejected"),
         shortlisted        |-> shortlisted,
         all_candidates     |-> candidates]

\* Variant: the job completes only at processed == total.
AggregateStatus_Exact(total, processed, status) ==
    IF total > 0 /\ processed = total THEN "completed"
    ELSE IF status # "failed" THEN "processing"
    ELSE status

\* The status aggregate_job_results assigns to the job it loaded.
AggregateStatus(total, processed, status) ==
    IF total > 0 /\ processed >= total THEN "completed"
    ELSE IF status # "failed" THEN "processing"
    ELSE status

\* process_resume's own text check.
TooShortForTask(shape) == shape.raw_len = 0 \/ shape.stripped_len < MinTextLen

\* The applicant row process_resume builds: the scorer always runs.
TaskApplicant(r, email, facts) ==
    LET result == calculate_deterministic_score(facts, JobRequiredSkills,
                                                JobMinExperience, PipelineResumeText)
    IN  [job_id |-> JobId, rid |-> r, email |-> email,
         match_score |-> result.final_score, status |-> result.status,
         breakdown |-> result.breakdown]

\* One _advance_job_progress call by resume r.
Advance(r, next_rs) ==
    /\ processed_resumes' = _advance_job_progress(processed_resumes)
    /\ jobStatus' = "processing"
    /\ rs' = [rs EXCEPT ![r] = [next_rs EXCEPT
                !.advanced = @ + (processed_resumes' - processed_resumes)]]

\* Lines 120-149: load the job, read the file, extract the text, scan it for
\* an email and look the email up.
PrStart(r) ==
    /\ mode = "celery"
    /\ rs[r].pc = "queued"
    /\ \E shape \in TextShapes :
         IF TooShortForTask(shape)
         THEN /\ Advance(r, [rs[r] EXCEPT !.pc = "finally", !.outcome = "short"])
              /\ UNCHANGED applicants
         ELSE \E email \in Emails \cup {Null} :
                /\ rs' = [rs EXCEPT ![r] = [@ EXCEPT
                            !.text_email = email,
                            !.pc = IF email # Null /\ IsDuplicate(applicants, JobId, email)
                                   THEN "duplicate" ELSE "extract",
                            !.outcome = IF email # Null /\ IsDuplicate(applicants, JobId, email)
                                        THEN "duplicate" ELSE @]]
                /\ UNCHANGED <<processed_resumes, jobStatus, applicants>>
    /\ UNCHANGED <<mode, total_resumes, results, aggQueued, aggRunning, bg, scoreIn, scoreOut>>
    /\ UNCHANGED <<scoreAgain, extractVars, trackerVars, limiterVars, matchVars>>

\* Lines 147-149: the duplicate branch advances the progress and returns.
PrDuplicate(r) ==
    /\ mode = "celery"
    /\ rs[r].pc = "duplicate"
    /\ Advance(r, [rs[r] EXCEPT !.pc = "finally"])
    /\ UNCHANGED <<mode, total_resumes, results, applicants, aggQueued, aggRunning, bg,
                   scoreIn, scoreOut>>
    /\ UNCHANGED <<scoreAgain, extractVars, trackerVars, limiterVars, matchVars>>

\* Lines 151-184: the extraction call, the scorer, the applicant row and its
\* commit; the IntegrityError of the unique index is rolled back and swallowed.
PrExtract(r) ==
    /\ mode = "celery"
    /\ rs[r].pc = "extract"
    /\ \/ \E facts \in ExtractedFacts,
            email \in ({rs[r].text_email} \ {Null}) \cup {UnknownEmail} :
            LET row    == TaskApplicant(r, email, facts)
                locals == [rs[r] EXCEPT
                             !.pc = "finally", !.extract_calls = @ + 1,
                             !.facts = facts, !.scorer_ran = TRUE]
            IN  IF UniqueViolation(applicants, row)
                THEN /\ rs' = [rs EXCEPT ![r] = [locals EXCEPT
                                 !.outcome = "unique_violation"]]
                     /\ UNCHANGED applicants
                ELSE /\ applicants' = Append(applicants, row)
                     /\ rs' = [rs EXCEPT ![r] = [locals EXCEPT !.outcome = "persisted"]]
       \/ \* AIServiceUnavailableError: leaves the task through `finally`
          /\ rs' = [rs EXCEPT ![r] = [@ EXCEPT
                      !.pc = "finally", !.extract_calls = @ + 1,
                      !.outcome = "error", !.raised = TRUE]]
          /\ UNCHANGED applicants
    /\ UNCHANGED <<mode, jobStatus, processed_resumes, total_resumes, results,
                   aggQueued, aggRunning, bg, scoreIn, scoreOut>>
    /\ UNCHANGED <<scoreAgain, extractVars, trackerVars, limiterVars, matchVars>>

\* Variant: the progress is advanced only when the `try` ended normally.
PrFinally_SkipOnError(r) ==
    /\ mode = "celery"
    /\ rs[r].pc = "finally"
    /\ IF rs[r].raised
       THEN /\ rs' = [rs EXCEPT ![r] = [@ EXCEPT !.pc = "done"]]
            /\ UNCHANGED <<processed_resumes, jobStatus>>
       ELSE Advance(r, [rs[r] EXCEPT !.pc = "done"])
    /\ aggQueued' = aggQueued + 1
    /\ UNCHANGED <<mode, total_resumes, results, applicants, aggRunning, bg,
                   scoreIn, scoreOut>>
    /\ UNCHANGED <<scoreAgain, extractVars, trackerVars, limiterVars, matchVars>>

\* Lines 185-190: the `finally` block runs on every exit of the `try`, the
\* early returns included.
PrFinally(r) ==
    /\ mode = "celery"
    /\ rs[r].pc = "finally"
    /\ Advance(r, [rs[r] EXCEPT !.pc = "done"])
    /\ aggQueued' = aggQueued + 1
    /\ UNCHANGED <<mode, total_resumes, results, applicants, aggRunning, bg,
                   scoreIn, scoreOut>>
    /\ UNCHANGED <<scoreAgain, extractVars, trackerVars, limiterVars, matchVars>>

\* The task t of the bag of running tasks moves on to next.
Replace(t, next) == (aggRunning (-) SetToBag({t})) (+) SetToBag({next})

\* aggregate_job_results, lines 84-87: a worker takes the task and loads the
\* job row.
AggLoadJob ==
    /\ mode = "celery"
    /\ aggQueued > 0
    /\ aggQueued' = aggQueued - 1
    /\ aggRunning' = aggRunning (+) SetToBag({[pc |-> "loaded",
                        processed |-> processed_resumes, status |-> jobStatus,
                        payload |-> NullRec]})
    /\ UNCHANGED <<mode, jobStatus, processed_resumes, total_resumes, results,
                   applicants, rs, bg, scoreIn, scoreOut>>
    /\ UNCHANGED <<scoreAgain, extractVars, trackerVars, limiterVars, matchVars>>

\* Lines 91-102: query the job's applicants and build the payload.
AggQuery ==
    /\ mode = "celery"
    /\ \E t \in BagToSet(aggRunning) :
         /\ t.pc = "loaded"
         /\ \E rows \in QueryOrders(JobApplicants(applicants, JobId)) :
              aggRunning' = Replace(t, [t EXCEPT
                               !.pc = "built",
                               !.payload = _build_results_payload(t.processed, rows)])
    /\ UNCHANGED <<mode, jobStatus, processed_resumes, total_resumes, results,
                   applicants, rs, aggQueued, bg, scoreIn, scoreOut>>
    /\ UNCHANGED <<scoreAgain, extractVars, trackerVars, limiterVars, matchVars>>

\* Lines 104-111: decide the status from the loaded row and commit.  The
\* session writes the columns whose value differs from the loaded one.
AggCommit ==
    /\ mode = "celery"
    /\ \E t \in BagToSet(aggRunning) :
         /\ t.pc = "built"
         /\ results' = t.payload
         /\ LET status == AggregateStatus(total_resumes, t.processed, t.status)
            IN  jobStatus' = IF status # t.status THEN status ELSE jobStatus
         /\ aggRunning' = aggRunning (-) SetToBag({t})
    /\ UNCHANGED <<mode, processed_resumes, total_resumes, applicants, rs,
                   aggQueued, bg, scoreIn, scoreOut>>
    /\ UNCHANGED <<scoreAgain, extractVars, trackerVars, limiterVars, matchVars>>

----------------------------------------------------------------------------
(* main.py: process_resumes_background, the sequential pipeline *)

\* The 0.5-year buffer of the experience floor, in half years.
ExperienceBuffer == 1

\* Knockout 1: total_years_experience < (min_experience - 0.5)
ExperienceKnockout(facts, min_experience) ==
    facts.total_years_experience < min_experience - ExperienceBuffer

\* Variant: only `s in k` is tried.
KoPresent_OneWay(s, skills_with_years) ==
    \E k \in {Lower(skills_with_years[i][1]) : i \in 1..Len(skills_with_years)} :
        IsSubstring(s, k)

\* any(s in k or k in s for k in candidate_skill_keys)
KoPresent(s, skills_with_years) ==
    \E k \in {Lower(skills_with_years[i][1]) : i \in 1..Len(skills_with_years)} :
        IsSubstring(s, k) \/ IsSubstring(k, s)

\* matched_ko: the required skills some candidate key substring-matches.
MatchedKo(facts, required_skills) ==
    {i \in 1..Len(required_skills) :
        KoPresent(Lower(required_skills[i]), facts.skills_with_years)}

\* Variant: a coverage of exactly one half is knocked out as well.
SkillKnockout_HalfFails(facts, required_skills) ==
    /\ required_skills # <<>>
    /\ 2 * Cardinality(MatchedKo(facts, required_skills)) <= Len(required_skills)

\* Knockout 2: coverage < 0.50, only for a non-empty list of required skills.
SkillKnockout(facts, required_skills) ==
    /\ required_skills # <<>>
    /\ 2 * Cardinality(MatchedKo(facts, required_skills)) < Len(required_skills)

KnockedOut(facts, min_experience, required_skills) ==
    \/ ExperienceKnockout(facts, min_experience)
    \/ SkillKnockout(facts, required_skills)

\* knockout_reason: the skill floor is looked at `if not knocked_out`.
KnockoutReason(facts, min_experience, required_skills) ==
    IF ExperienceKnockout(facts, min_experience) THEN "Insufficient experience"
    ELSE IF SkillKnockout(facts, required_skills) THEN "Skill floor not met"
    ELSE Null

\* The applicant row of stage 5: score 0 for a knockout, the scorer otherwise.
BackgroundApplicant(r, email, facts) ==
    IF KnockedOut(facts, JobMinExperience, JobRequiredSkills)
    THEN [job_id |-> JobId, rid |-> r, email |-> email, match_score |-> 0,
          status |-> "rejected", breakdown |-> NullRec]
    ELSE TaskApplicant(r, email, facts)

\* Lines 146-162: the availability check and the reset of the job row; an
\* unavailable service fails the whole job (lines 388-395).
BgStart ==
    /\ mode = "background"
    /\ bg.pc = "start"
    /\ \/ /\ bg' = [bg EXCEPT !.pc = "loop"]
          /\ jobStatus' = "processing"
          /\ processed_resumes' = 0
       \/ /\ bg' = [bg EXCEPT !.pc = "failed"]
          /\ jobStatus' = "failed"
          /\ UNCHANGED processed_resumes
    /\ UNCHANGED <<mode, total_resumes, results, applicants, rs, aggQueued, aggRunning,
                   scoreIn, scoreOut>>
    /\ UNCHANGED <<scoreAgain, extractVars, trackerVars, limiterVars, matchVars>>

\* The `finally` of one loop iteration, lines 327-332.
BgIterationEnd(r, next_rs, next_bg) ==
    /\ processed_resumes' = bg.idx + 1
    /\ bg' = [next_bg EXCEPT !.idx = bg.idx + 1]
    /\ rs' = [rs EXCEPT ![r] = [next_rs EXCEPT
                !.pc = "done",
                !.advanced = @ + (processed_resumes' - processed_resumes)]]

\* Lines 183-332: one iteration of the loop over the archive's files.
BgResume ==
    /\ mode = "background"
    /\ bg.pc = "loop"
    /\ bg.idx < NumResumes
    /\ LET r == bg.idx + 1 IN
       \E shape \in TextShapes :
         IF shape.raw_len < MinTextLen
         THEN /\ BgIterationEnd(r, [rs[r] EXCEPT !.outcome = "short"], bg)
              /\ UNCHANGED applicants
         ELSE \E email \in Emails \cup {Null} :
           IF email # Null /\ IsDuplicate(applicants, JobId, email)
           THEN /\ BgIterationEnd(r,
                      [rs[r] EXCEPT !.text_email = email, !.outcome = "duplicate"],
                      [bg EXCEPT !.duplicates_skipped = @ + 1])
                /\ UNCHANGED applicants
           ELSE
             \/ \* the extraction call raises: caught at line 324
                /\ BgIterationEnd(r,
                      [rs[r] EXCEPT !.text_email = email, !.outcome = "error",
                                    !.extract_calls = @ + 1], bg)
                /\ UNCHANGED applicants
             \/ \E facts \in ExtractedFacts,
                     ai_email \in ({email} \ {Null}) \cup {UnknownEmail} :
                  LET ko     == KnockedOut(facts, JobMinExperience, JobRequiredSkills)
                      row    == BackgroundApplicant(r, ai_email, facts)
                      stats  == [bg EXCEPT
                                   !.knocked_out = IF ko THEN @ + 1 ELSE @,
                                   !.scored = IF ko THEN @ ELSE @ + 1]
                      locals == [rs[r] EXCEPT
                                   !.text_email = email, !.extract_calls = @ + 1,
                                   !.facts = facts, !.scorer_ran = ~ko]
                  IN  IF UniqueViolation(applicants, row)
                      THEN \* IntegrityError at db.commit(): caught at line 324
                           /\ BgIterationEnd(r, [locals EXCEPT !.outcome = "error"], stats)
                           /\ UNCHANGED applicants
                      ELSE /\ applicants' = Append(applicants, row)
                           /\ BgIterationEnd(r, [locals EXCEPT !.outcome = "persisted"],
                                 [stats EXCEPT
                                    !.candidates = Append(@, CandidateOf(row)),
                                    !.total_processed = @ + 1])
    /\ UNCHANGED <<mode, jobStatus, total_resumes, results, aggQueued, aggRunning,
                   scoreIn, scoreOut>>
    /\ UNCHANGED <<scoreAgain, extractVars, trackerVars, limiterVars, matchVars>>

\* Lines 334-360: the batch result built from the loop's candidates and stats.
BackgroundResults(stats) ==
    LET candidates  == SortByScoreDesc(stats.candidates)
        shortlisted == TopTenPercent(candidates)
    IN  [total_processed    |-> stats.total_processed,
         duplicates_skipped |-> stats.duplicates_skipped,
         knocked_out        |-> stats.knocked_out,
         scored             |-> stats.scored,
         shortlisted_count  |-> Len(shortlisted),
         review_count       |-> CountStatus(candidates, "review"),
         rejected_count     |-> CountStatus(candidates, "rejected"),
         shortlisted        |-> shortlisted,
         all_candidates     |-> candidates]

\* Lines 334-373: sort, shortlist, count and store the batch result.
BgFinish ==
    /\ mode = "background"
    /\ bg.pc = "loop"
    /\ bg.idx = NumResumes
    /\ results' = BackgroundResults(bg)
    /\ jobStatus' = "completed"
    /\ total_resumes' = NumResumes
    /\ processed_resumes' = bg.total_processed
    /\ bg' = [bg EXCEPT !.pc = "done"]
    /\ UNCHANGED <<mode, applicants, rs, aggQueued, aggRunning, scoreIn, scoreOut>>
    /\ UNCHANGED <<scoreAgain, extractVars, trackerVars, limiterVars, matchVars>>

----------------------------------------------------------------------------
(* The pipeline *)

\* The state of the parts that an entry point does not touch.
BatchIdle ==
    /\ jobStatus = "processing"
    /\ processed_resumes = 0
    /\ total_resumes = NumResumes
    /\ results = NoResults
    /\ applicants = <<>>
    /\ rs = [r \in Resumes |-> NewResume]
    /\ aggQueued = 0
    /\ aggRunning = EmptyBag
    /\ bg = IdleBg

ScoreIdle == scoreIn = NoScore /\ scoreOut = NoScore /\ scoreAgain = NoScore

ExtractIdle == extractIn = NullRec /\ extractOut = NullRec

TrackerIdle == jobs = <<>> /\ created = <<>> /\ now = 0

MatchIdle == matchIn = NullRec /\ matchOut = NullRec

\* RateLimiter(calls_per_minute=60): 60.0 / 60, in half seconds.
MinInterval == 2

NumCoroutines == 2

Coroutines == 1..NumCoroutines

\* A coroutine that is not inside wait_if_needed.
Outside == [pc |-> "outside", wait_until |-> 0]

\* last_call_time starts at 0 and time.time() is far more than min_interval
\* later.
LimiterIdle ==
    /\ clock = MinInterval
    /\ last_call_time = 0
    /\ co = [c \in Coroutines |-> Outside]
    /\ calls = <<>>

\* The job row after bulk_screen_resumes (main.py lines 443-475).
Init ==
    /\ mode \in {"celery", "background"}
    /\ jobStatus = "processing"
    /\ processed_resumes = 0
    /\ total_resumes = NumResumes
    /\ results = NoResults
    /\ applicants = <<OtherJobApplicant>>
    /\ rs = [r \in Resumes |-> NewResume]
    /\ aggQueued = 0
    /\ aggRunning = EmptyBag
    /\ bg = [IdleBg EXCEPT !.pc = IF mode = "background" THEN "start" ELSE "idle"]
    /\ ScoreIdle
    /\ ExtractIdle
    /\ TrackerIdle
    /\ LimiterIdle
    /\ MatchIdle

Next ==
    \/ \E r \in Resumes : PrStart(r)
    \/ \E r \in Resumes : PrDuplicate(r)
    \/ \E r \in Resumes : PrExtract(r)
    \/ \E r \in Resumes : PrFinally(r)
    \/ AggLoadJob
    \/ AggQuery
    \/ AggCommit
    \/ BgStart
    \/ BgResume
    \/ BgFinish

Spec == Init /\ [][Next]_vars

----------------------------------------------------------------------------
(* The scorer on its own *)

ScoreInit ==
    /\ mode = "score"
    /\ BatchIdle
    /\ scoreIn \in ScoreInputs
    /\ scoreOut = NoScore
    /\ scoreAgain = NoScore
    /\ ExtractIdle
    /\ TrackerIdle
    /\ LimiterIdle
    /\ MatchIdle

\* One call of the scorer on the drawn arguments.
ScoreCall(items) ==
    calculate_deterministic_score(
        [scoreIn.candidate EXCEPT !.skills_with_years = items],
        scoreIn.required_skills, scoreIn.min_experience, scoreIn.raw_resume_text)

Score ==
    /\ mode = "score"
    /\ scoreOut = NoScore
    /\ \E items \in DictItems(scoreIn.candidate.skills_with_years) :
         scoreOut' = ScoreCall(items)
    /\ UNCHANGED <<mode, jobStatus, processed_resumes, total_resumes, results,
                   applicants, rs, aggQueued, aggRunning, bg, scoreIn>>
    /\ UNCHANGED <<scoreAgain, extractVars, trackerVars, limiterVars, matchVars>>

\* A second call with the same arguments.
ScoreAgain ==
    /\ mode = "score"
    /\ scoreOut # NoScore
    /\ scoreAgain = NoScore
    /\ \E items \in DictItems(scoreIn.candidate.skills_with_years) :
         scoreAgain' = ScoreCall(items)
    /\ UNCHANGED <<mode, batchVars, scoreIn, scoreOut, extractVars, trackerVars, limiterVars, matchVars>>

ScoreNext == Score \/ ScoreAgain

ScoreSpec == ScoreInit /\ [][ScoreNext]_vars

----------------------------------------------------------------------------
(* The batch result on its own: the stored applicants of a job are drawn, *)
(* and the result is built as each pipeline builds it.                    *)

MaxBatch == 21      \* applicants stored for the job

ScorePatterns == {"rising", "falling", "first two equal", "zigzag"}

\* The score of the i-th stored applicant.
PatternScore(pattern, i) ==
    CASE pattern = "rising"          -> 2 * i
      [] pattern = "falling"         -> 100 - 2 * i
      [] pattern = "first two equal" -> IF i <= 2 THEN 50 ELSE 50 + i
      [] pattern = "zigzag"          -> IF i % 2 = 0 THEN 40 + i ELSE 90 - i

\* The i-th stored applicant of the job: ids and emails follow the insertion.
StoredApplicant(pattern, i) ==
    LET score == PatternScore(pattern, i)
    IN  [job_id |-> JobId, rid |-> i, email |-> ToString(i),
         match_score |-> score, status |-> StatusBucket(score),
         breakdown |-> NullRec]

StoredBatches ==
    {[i \in 1..n |-> StoredApplicant(pattern, i)] :
        n \in 0..MaxBatch, pattern \in ScorePatterns}

ResultsInit ==
    /\ mode = "results"
    /\ jobStatus = "processing"
    /\ applicants \in StoredBatches
    /\ processed_resumes = Len(applicants)
    /\ total_resumes = Len(applicants)
    /\ results = NoResults
    /\ rs = [r \in Resumes |-> NewResume]
    /\ aggQueued = 0
    /\ aggRunning = EmptyBag
    /\ bg = [IdleBg EXCEPT
               !.pc = "loop", !.idx = Len(applicants),
               !.candidates = [i \in 1..Len(applicants) |-> CandidateOf(applicants[i])],
               !.total_processed = Len(applicants),
               !.scored = Len(applicants)]
    /\ ScoreIdle
    /\ ExtractIdle
    /\ TrackerIdle
    /\ LimiterIdle
    /\ MatchIdle

\* aggregate_job_results, lines 91-102.
AggregateResults ==
    /\ mode = "results"
    /\ results = NoResults
    /\ \E rows \in QueryOrders(JobApplicants(applicants, JobId)) :
         results' = _build_results_payload(processed_resumes, rows)
    /\ jobStatus' = "completed"
    /\ UNCHANGED <<mode, processed_resumes, total_resumes, applicants, rs, aggQueued,
                   aggRunning, bg, scoreVars, extractVars, trackerVars, limiterVars, matchVars>>

\* process_resumes_background, lines 334-360.
BackgroundSummary ==
    /\ mode = "results"
    /\ results = NoResults
    /\ results' = BackgroundResults(bg)
    /\ jobStatus' = "completed"
    /\ bg' = [bg EXCEPT !.pc = "done"]
    /\ UNCHANGED <<mode, processed_resumes, total_resumes, applicants, rs, aggQueued,
                   aggRunning, scoreVars, extractVars, trackerVars, limiterVars, matchVars>>

ResultsNext == AggregateResults \/ BackgroundSummary

ResultsSpec == ResultsInit /\ [][ResultsNext]_vars

----------------------------------------------------------------------------
(* The screening stages on their own: stages 3 to 5 of apply_for_job      *)
(* (routers/applicants.py) and of process_resumes_background, applied to  *)
(* drawn facts and job parameters.                                        *)

ScreenInputs ==
    [candidate : NumericCandidates, required_skills : SeqsUpTo(RequiredNames, MaxRequired),
     min_experience : MinExperiences, raw_resume_text : {<<"a", " ", "b">>}]

ScreenInit ==
    /\ mode = "screen"
    /\ BatchIdle
    /\ scoreIn \in ScreenInputs
    /\ scoreOut = NoScore
    /\ scoreAgain = NoScore
    /\ ExtractIdle
    /\ TrackerIdle
    /\ LimiterIdle
    /\ MatchIdle

\* Stage 3 decides the knockout, stage 4 runs the scorer for the others,
\* stage 5 stores the row.
Screen ==
    /\ mode = "screen"
    /\ applicants = <<>>
    /\ LET reason == KnockoutReason(scoreIn.candidate, scoreIn.min_experience,
                                    scoreIn.required_skills)
           result == calculate_deterministic_score(scoreIn.candidate,
                        scoreIn.required_skills, scoreIn.min_experience,
                        scoreIn.raw_resume_text)
       IN  IF reason # Null
           THEN /\ applicants' = <<[job_id |-> JobId, rid |-> 1, email |-> UnknownEmail,
                                    match_score |-> 0, status |-> "rejected",
                                    breakdown |-> NullRec, summary |-> reason]>>
                /\ UNCHANGED scoreOut
           ELSE /\ applicants' = <<[job_id |-> JobId, rid |-> 1, email |-> UnknownEmail,
                                    match_score |-> result.final_score,
                                    status |-> result.status,
                                    breakdown |-> result.breakdown,
                                    summary |-> "scored"]>>
                /\ scoreOut' = result
    /\ UNCHANGED <<mode, jobStatus, processed_resumes, total_resumes, results, rs,
                   aggQueued, aggRunning, bg, scoreIn, scoreAgain, extractVars,
                   trackerVars, limiterVars, matchVars>>

ScreenNext == Screen

ScreenSpec == ScreenInit /\ [][ScreenNext]_vars

----------------------------------------------------------------------------
(* services/ai_engine.py: extract_candidate_facts *)

\* JSON values of the service's answer, tagged with their Python type.
JNone == [t |-> "none"]
JNum(n) == [t |-> "num", num |-> n]
JStr(x) == [t |-> "str", str |-> x]
JList(x) == [t |-> "list", list |-> x]
JDict(x) == [t |-> "dict", dict |-> x]
JAbsent == [t |-> "absent"]     \* the key is not in the object

\* Values of the returned dict, tagged with the type the sanitization gave.
PyFloat(n) == [t |-> "float", float |-> n]
PyInt(n) == [t |-> "int", int |-> n]

\* Python truthiness of a JSON value.
Truthy(x) ==
    CASE x.t = "none"   -> FALSE
      [] x.t = "absent" -> FALSE
      [] x.t = "num"    -> x.num # 0
      [] x.t = "str"    -> x.str # ""
      [] x.t = "list"   -> x.list # <<>>
      [] x.t = "dict"   -> x.dict # <<>>

\* float(x) and int(x) succeed on numbers; the strings of the answers
\* below are not numeric.
Converts(x) == x.t = "num"

\* The dict returned when the service gave no usable answer.
ZeroFacts ==
    [email                  |-> JStr(UnknownEmail),
     total_years_experience |-> PyFloat(0),
     skills_with_years      |-> JDict(<<>>),
     metrics_bullet_count   |-> PyInt(0),
     jd_requirement_matches |-> JAbsent]

Raised(error) == [kind |-> "raised", error |-> error, data |-> NullRec]
Returned(data) == [kind |-> "returned", error |-> Null, data |-> data]

\* data.get(key) or default
GetOr(x, default) == IF Truthy(x) THEN x ELSE default

\* Lines 318-320: the skills after `or {}` and the isinstance check.
SkillsDict(x) == IF Truthy(x) /\ x.t = "dict" THEN x.dict ELSE <<>>

\* Lines 331-344: the matches that are dicts, with their fields coerced.
SanitizedMatches(x) ==
    LET matches == IF Truthy(x) /\ x.t = "list" THEN x.list ELSE <<>>
        dicts   == SelectSeq(matches, LAMBDA m : m.t = "dict")
    IN  JList([i \in 1..Len(dicts) |->
                  [requirement    |-> dicts[i].dict.requirement,
                   is_met         |-> Truthy(dicts[i].dict.is_met),
                   citation_quote |-> dicts[i].dict.citation_quote]])

\* Lines 313-347: the type sanitization of a parsed answer; a failing
\* conversion raises into the `except` of line 349.
Sanitized(data) ==
    LET years   == GetOr(data.total_years_experience, JNum(0))
        skills  == SkillsDict(data.skills_with_years)
        bullets == GetOr(data.metrics_bullet_count, JNum(0))
    IN  IF \/ ~Converts(years)
           \/ \E i \in 1..Len(skills) : ~Converts(skills[i].years)
           \/ ~Converts(bullets)
        THEN Returned(ZeroFacts)
        ELSE Returned(
               [email                  |-> IF data.email = JAbsent
                                           THEN JStr(UnknownEmail) ELSE data.email,
                total_years_experience |-> PyFloat(years.num),
                skills_with_years      |-> JDict([i \in 1..Len(skills) |->
                                              [skill |-> skills[i].skill,
                                               years |-> PyFloat(skills[i].years.num)]]),
                metrics_bullet_count   |-> PyInt(bullets.num),
                jd_requirement_matches |-> IF data.jd_requirement_matches = JAbsent
                                           THEN JAbsent
                                           ELSE SanitizedMatches(data.jd_requirement_matches)])

\* service: "no_model" (_get_model() is None), "unreachable" (generate_content
\* raises), "unparsable" (json.loads raises) or "answered".
extract_candidate_facts(service, answer, fail_on_unavailable) ==
    IF service = "no_model"
    THEN IF fail_on_unavailable THEN Raised("AIServiceUnavailableError")
         ELSE Returned(ZeroFacts)
    ELSE IF service \in {"unreachable", "unparsable"}
         THEN Returned(ZeroFacts)
         ELSE Sanitized(answer)

\* Answers of the service.
AnswerNumbers == {JNone, JNum(7), JStr("n/a")}

AnswerSkills ==
    {JNone, JList(<<JStr("py")>>), JDict(<<[skill |-> "py", years |-> JNum(6)]>>),
     JDict(<<[skill |-> "py", years |-> JStr("two")]>>)}

AnswerEmails == {JAbsent, JNone, JStr("a@x.io")}

AnswerMatches ==
    {JAbsent, JNone, JStr("none"),
     JList(<<JDict([requirement |-> "r1", is_met |-> JStr("yes"),
                    citation_quote |-> JNone]),
             JStr("r2")>>)}

Answers ==
    [email                  : AnswerEmails,
     total_years_experience : AnswerNumbers,
     skills_with_years      : AnswerSkills,
     metrics_bullet_count   : AnswerNumbers,
     jd_requirement_matches : AnswerMatches]

ExtractInputs ==
    [service : {"no_model", "unreachable", "unparsable"}, answer : {NullRec},
     fail_on_unavailable : BOOLEAN]
    \cup
    [service : {"answered"}, answer : Answers, fail_on_unavailable : BOOLEAN]

ExtractInit ==
    /\ mode = "extract"
    /\ BatchIdle
    /\ ScoreIdle
    /\ extractIn \in ExtractInputs
    /\ extractOut = NullRec
    /\ TrackerIdle
    /\ LimiterIdle
    /\ MatchIdle

Extract ==
    /\ mode = "extract"
    /\ extractOut = NullRec
    /\ extractOut' = extract_candidate_facts(extractIn.service, extractIn.answer,
                                             extractIn.fail_on_unavailable)
    /\ UNCHANGED <<mode, batchVars, scoreVars, extractIn, trackerVars, limiterVars, matchVars>>

ExtractNext == Extract

ExtractSpec == ExtractInit /\ [][ExtractNext]_vars

----------------------------------------------------------------------------
(* services/job_tracker.py: JobTracker *)

\* The ids uuid4 can return.
MaxJobs == 3

JobIds == 1..MaxJobs

NumCompanies == 2

Companies == 1..NumCompanies

\* The last hour at which the tracker is called.
MaxTime == 4

\* get_job's company_id = None.
NoCompany == 0

JobStatuses == {"pending", "processing", "completed", "failed"}

\* A stored batch result.
TrackedResults == [none |-> FALSE, total_processed |-> NumResumes]

\* The position of job_id in self.jobs, 0 when it is not a key.
JobIndex(tracked, job_id) ==
    IF \E i \in 1..Len(tracked) : tracked[i].id = job_id
    THEN CHOOSE i \in 1..Len(tracked) : tracked[i].id = job_id
    ELSE 0

NewJob(job_id, total, company_id, t) ==
    [id |-> job_id, company_id |-> company_id, status |-> "pending",
     total_resumes |-> total, processed |-> 0, created_at |-> t,
     updated_at |-> t, results |-> NullRec, error |-> Null]

\* Variant: the job is returned whoever asks for it.
get_job_Unfiltered(tracked, job_id, company_id) ==
    IF JobIndex(tracked, job_id) = 0 THEN NullRec
    ELSE tracked[JobIndex(tracked, job_id)]

get_job(tracked, job_id, company_id) ==
    LET i == JobIndex(tracked, job_id)
    IN  IF i = 0 THEN NullRec
        ELSE IF company_id # NoCompany /\ tracked[i].company_id # company_id
             THEN NullRec
             ELSE tracked[i]

get_company_jobs(tracked, company_id) ==
    SelectSeq(tracked, LAMBDA job : job.company_id = company_id)

\* The jobs cleanup_old_jobs removes at hour t.
TooOld(job, t, max_age_hours) == t - job.created_at > max_age_hours

\* Every call reads the clock, which has advanced since the previous call.
ClockReads == (now + 1)..MaxTime

create_job ==
    /\ mode = "tracker"
    /\ \E t \in ClockReads, company_id \in Companies,
          job_id \in JobIds \ {created[i].id : i \in 1..Len(created)} :
         /\ jobs' = Append(jobs, NewJob(job_id, NumResumes, company_id, t))
         /\ created' = Append(created, [id |-> job_id, company_id |-> company_id])
         /\ now' = t
    /\ UNCHANGED <<mode, batchVars, scoreVars, extractVars, limiterVars, matchVars>>

update_status ==
    /\ mode = "tracker"
    /\ \E t \in ClockReads, job_id \in JobIds, status \in JobStatuses,
          error \in {Null, "error"} :
         LET i == JobIndex(jobs, job_id)
         IN  /\ jobs' = IF i = 0 THEN jobs
                        ELSE [jobs EXCEPT ![i].status = status,
                                          ![i].updated_at = t,
                                          ![i].error = IF error # Null THEN error ELSE @]
             /\ now' = t
    /\ UNCHANGED <<mode, batchVars, scoreVars, extractVars, created, limiterVars, matchVars>>

update_progress ==
    /\ mode = "tracker"
    /\ \E t \in ClockReads, job_id \in JobIds, processed \in 1..NumResumes :
         LET i == JobIndex(jobs, job_id)
         IN  /\ jobs' = IF i = 0 THEN jobs
                        ELSE [jobs EXCEPT ![i].processed = processed,
                                          ![i].updated_at = t]
             /\ now' = t
    /\ UNCHANGED <<mode, batchVars, scoreVars, extractVars, created, limiterVars, matchVars>>

set_results ==
    /\ mode = "tracker"
    /\ \E t \in ClockReads, job_id \in JobIds :
         LET i == JobIndex(jobs, job_id)
         IN  /\ jobs' = IF i = 0 THEN jobs
                        ELSE [jobs EXCEPT ![i].results = TrackedResults,
                                          ![i].status = "completed",
                                          ![i].updated_at = t]
             /\ now' = t
    /\ UNCHANGED <<mode, batchVars, scoreVars, extractVars, created, limiterVars, matchVars>>

cleanup_old_jobs ==
    /\ mode = "tracker"
    /\ \E t \in ClockReads, max_age_hours \in 1..(MaxTime - 1) :
         /\ jobs' = SelectSeq(jobs, LAMBDA job : ~TooOld(job, t, max_age_hours))
         /\ now' = t
    /\ UNCHANGED <<mode, batchVars, scoreVars, extractVars, created, limiterVars, matchVars>>

TrackerInit ==
    /\ mode = "tracker"
    /\ BatchIdle
    /\ ScoreIdle
    /\ ExtractIdle
    /\ TrackerIdle
    /\ LimiterIdle
    /\ MatchIdle

TrackerNext ==
    \/ create_job
    \/ update_status
    \/ update_progress
    \/ set_results
    \/ cleanup_old_jobs

TrackerSpec == TrackerInit /\ [][TrackerNext]_vars

----------------------------------------------------------------------------
(* services/ai_engine.py: RateLimiter *)

\* The last value of time.time() that is looked at.
MaxClock == 6

\* Lines 106-109 and, without a wait, line 114: the coroutine reads the clock
\* and either goes to sleep or records its call at once.
WaitIfNeeded(c) ==
    /\ mode = "limiter"
    /\ co[c].pc = "outside"
    /\ LET time_since_last_call == clock - last_call_time
       IN  IF time_since_last_call < MinInterval
           THEN /\ co' = [co EXCEPT ![c] = [pc |-> "sleeping",
                            wait_until |-> clock + (MinInterval - time_since_last_call)]]
                /\ UNCHANGED <<last_call_time, calls>>
           ELSE /\ last_call_time' = clock
                /\ calls' = Append(calls, clock)
                /\ UNCHANGED co
    /\ UNCHANGED <<mode, batchVars, scoreVars, extractVars, trackerVars, clock, matchVars>>

\* Lines 112-114: asyncio.sleep(wait_time) is over, the coroutine records its
\* call and returns to its caller, which calls the service.
WakeUp(c) ==
    /\ mode = "limiter"
    /\ co[c].pc = "sleeping"
    /\ clock >= co[c].wait_until
    /\ last_call_time' = clock
    /\ calls' = Append(calls, clock)
    /\ co' = [co EXCEPT ![c] = Outside]
    /\ UNCHANGED <<mode, batchVars, scoreVars, extractVars, trackerVars, clock, matchVars>>

\* Time passes.
ClockTick ==
    /\ mode = "limiter"
    /\ clock < MaxClock
    /\ clock' = clock + 1
    /\ UNCHANGED <<mode, batchVars, scoreVars, extractVars, trackerVars,
                   last_call_time, co, calls, matchVars>>

LimiterInit ==
    /\ mode = "limiter"
    /\ BatchIdle
    /\ ScoreIdle
    /\ ExtractIdle
    /\ TrackerIdle
    /\ LimiterIdle
    /\ MatchIdle

LimiterNext ==
    \/ \E c \in Coroutines : WaitIfNeeded(c)
    \/ \E c \in Coroutines : WakeUp(c)
    \/ ClockTick

LimiterSpec == LimiterInit /\ [][LimiterNext]_vars

----------------------------------------------------------------------------
(* The two skill matchers on their own *)

MatchKeys == {<<"p">>, <<"p", "y">>, <<"P", "y">>, <<"j">>, <<>>}

MatchRequired == {<<"p", "y">>, <<"P", "Y">>, <<"j", "s">>, <<"x">>}

\* Mappings with distinct keys, in every insertion order.
MatchDicts ==
    {d \in SeqsUpTo(MatchKeys \X SkillYears, MaxSkills) :
        \A i, j \in 1..Len(d) : i # j => d[i][1] # d[j][1]}

MatchInputs == [required : MatchRequired, skills : MatchDicts]

MatchInit ==
    /\ mode = "match"
    /\ BatchIdle
    /\ ScoreIdle
    /\ ExtractIdle
    /\ TrackerIdle
    /\ LimiterIdle
    /\ matchIn \in MatchInputs
    /\ matchOut = NullRec

\* The matcher on the mapping as given, the matcher as the scorer calls it
\* (lower-cased required skill, lower-cased mapping), and the skill floor's
\* check of the same required skill.
Match ==
    /\ mode = "match"
    /\ matchOut = NullRec
    /\ matchOut' =
         [none    |-> FALSE,
          direct  |-> _fuzzy_match_skill(matchIn.required, matchIn.skills),
          scorer  |-> _fuzzy_match_skill(Lower(matchIn.required),
                                         LowerKeys(matchIn.skills)),
          present |-> KoPresent(Lower(matchIn.required), matchIn.skills)]
    /\ UNCHANGED <<mode, batchVars, scoreVars, extractVars, trackerVars,
                   limiterVars, matchIn>>

MatchNext == Match

MatchSpec == MatchInit /\ [][MatchNext]_vars

----------------------------------------------------------------------------
(* Properties *)

AllAttempted == \A r \in Resumes : rs[r].pc = "done"

\* Every resume task and every aggregation task has finished.
Quiescent ==
    /\ mode = "celery"
    /\ AllAttempted
    /\ aggQueued = 0
    /\ aggRunning = EmptyBag

\* The rows stored for resume r.
RowsOf(r) == {i \in 1..Len(applicants) : applicants[i].rid = r}

\* C1: a candidate whose extracted experience is below min_experience - 0.5
\* is knocked out: the scorer is not run and the stored row has score 0,
\* status rejected and no breakdown.
C1_ExperienceKnockoutStored ==
    \A i \in 1..Len(applicants) :
        LET a == applicants[i] IN
        (a.job_id = JobId /\ ExperienceKnockout(rs[a.rid].facts, JobMinExperience))
        => /\ a.match_score = 0
           /\ a.status = "rejected"
           /\ a.breakdown = NullRec
           /\ ~rs[a.rid].scorer_ran

\* C2: every resume advances the progress counter by exactly one, whatever
\* its outcome, so after all resumes were attempted the counter equals their
\* number.
C2_ProgressCountsAttempts ==
    /\ \A r \in Resumes : rs[r].pc = "done" => rs[r].advanced = 1
    /\ AllAttempted => processed_resumes = NumResumes

\* C3: the job is completed only after every resume of the batch finished
\* its pipeline.
C3_CompletedOnlyAfterAll == jobStatus = "completed" => AllAttempted

\* An applicant with this email is stored for the bulk job.
StoreHolds(email) ==
    \E i \in 1..Len(applicants) :
        applicants[i].job_id = JobId /\ applicants[i].email = email

C4_Counts ==
    \A r \in Resumes :
        /\ rs[r].extract_calls <= 1
        /\ rs[r].outcome = "duplicate"
           => rs[r].extract_calls = 0 /\ RowsOf(r) = {} /\ StoreHolds(rs[r].text_email)
        /\ (rs[r].pc = "done" /\ rs[r].outcome \notin {"short", "duplicate"})
           => rs[r].extract_calls = 1

C4_Decision ==
    \A r \in Resumes :
        (rs[r].pc = "queued" /\ rs'[r].pc # "queued")
        => IF rs'[r].text_email # Null /\ StoreHolds(rs'[r].text_email)
           THEN /\ rs'[r].outcome = "duplicate"
                /\ rs'[r].extract_calls = 0
                /\ applicants' = applicants
           ELSE rs'[r].outcome # "duplicate"

C5_UniqueEmailPerJob ==
    /\ \A i, j \in 1..Len(applicants) :
          (i # j /\ applicants[i].job_id = applicants[j].job_id)
          => applicants[i].email # applicants[j].email
    /\ \A r \in Resumes :
          rs[r].outcome = "unique_violation"
          => /\ ~rs[r].raised
             /\ RowsOf(r) = {}
             /\ rs[r].pc = "done" => rs[r].advanced = 1

\* Two tasks scanned the same email, both passed the pre-check, one stored
\* it and the other lost at commit.
C5_Witness ==
    \E r1, r2 \in Resumes :
        /\ r1 # r2
        /\ rs[r1].text_email # Null
        /\ rs[r1].text_email = rs[r2].text_email
        /\ rs[r1].outcome = "persisted"
        /\ \E i \in RowsOf(r1) : applicants[i].email = rs[r1].text_email
        /\ rs[r2].outcome = "unique_violation"
        /\ rs[r2].pc = "done"

\* The matches whose citation is literally in the resume text.
Supported(matches, text) ==
    {i \in 1..Len(matches) :
        /\ matches[i].is_met
        /\ matches[i].citation_quote # NullText
        /\ IsSubstring(NormalizeText(matches[i].citation_quote), NormalizeText(text))}

\* C6: only a match that is met, cited and whose normalized citation occurs
\* in the normalized resume text counts as verified; the JD component is
\* verified / total * 30; a single met match whose citation is not in the
\* text gives component 0 and one hallucination.
C6_OnlyCitedMatchesScore ==
    scoreOut # NoScore =>
        LET matches == scoreIn.candidate.jd_requirement_matches
            text    == scoreIn.raw_resume_text
        IN  /\ scoreOut.verified_requirements <= Cardinality(Supported(matches, text))
            /\ scoreOut.breakdown.jd_requirements =
                  IF matches = <<>> THEN 0
                  ELSE RoundTenths(<<30 * scoreOut.verified_requirements, Len(matches)>>)
            /\ Supported(matches, text) = {} => scoreOut.breakdown.jd_requirements = 0
            /\ (Len(matches) = 1 /\ text # <<>> /\ matches[1].is_met
                /\ matches[1].citation_quote # NullText
                /\ Supported(matches, text) = {})
               => scoreOut.hallucination_count = 1

C6_Witness ==
    /\ scoreOut # NoScore
    /\ Len(scoreIn.candidate.jd_requirement_matches) = 1
    /\ scoreIn.candidate.jd_requirement_matches[1].is_met
    /\ scoreIn.candidate.jd_requirement_matches[1].citation_quote = <<"b", "a">>
    /\ scoreIn.raw_resume_text = <<"a", " ", "b">>
    /\ scoreOut.hallucination_count = 1
    /\ scoreOut.breakdown.jd_requirements = 0

\* The batch is complete and all its resumes carried the same email, which
\* the extraction service returned as it stands in the text.
SameEmailBatch ==
    /\ \/ Quiescent /\ jobStatus = "completed"
       \/ mode = "background" /\ bg.pc = "done"
    /\ \A r \in Resumes :
          /\ rs[r].text_email # Null
          /\ rs[r].text_email = rs[1].text_email
          /\ rs[r].outcome \in {"persisted", "duplicate", "unique_violation"}
    /\ \A i \in 1..Len(applicants) :
          applicants[i].job_id = JobId => applicants[i].email = rs[1].text_email

\* C7: a batch of resumes with the identical email reports one processed
\* resume and every other one as a skipped duplicate (two resumes:
\* duplicates_skipped = 1, total_processed = 1).
C7_DuplicateCounted ==
    SameEmailBatch
    => /\ results.total_processed = 1
       /\ results.duplicates_skipped = NumResumes - 1

\* C8: final_score is in [0,100] and the status is decided by the score
\* alone: shortlisted from 80, review from 60 to 79, rejected below 60.
C8_ScoreRangeAndStatus ==
    scoreOut # NoScore =>
        /\ scoreOut.final_score \in 0..100
        /\ scoreOut.status = "shortlisted" <=> scoreOut.final_score >= 80
        /\ scoreOut.status = "review"
              <=> (scoreOut.final_score >= 60 /\ scoreOut.final_score < 80)
        /\ scoreOut.status = "rejected" <=> scoreOut.final_score < 60

C8_Witness ==
    /\ scoreOut # NoScore
    /\ scoreOut.final_score = 80
    /\ scoreOut.status = "shortlisted"

FinalResult ==
    \/ Quiescent /\ jobStatus = "completed"
    \/ mode = "background" /\ bg.pc = "done"

Persisted == {r \in Resumes : rs[r].outcome = "persisted"}

\* C11: a resume with fewer than 50 characters of text is skipped without
\* an extraction call and without a stored row, and the batch result counts
\* it neither as processed nor as a duplicate nor as a knockout.
C11_ShortTextNotCounted ==
    /\ \A r \in Resumes :
          rs[r].outcome = "short" => rs[r].extract_calls = 0 /\ RowsOf(r) = {}
    /\ (FinalResult /\ \A r \in Resumes : rs[r].outcome \in {"short", "persisted"})
       => /\ results.duplicates_skipped = 0
          /\ results.total_processed = Cardinality(Persisted)
          /\ results.knocked_out <= Cardinality(Persisted)

\* The service gave no usable answer.
ServiceFailed == extractIn.service \in {"no_model", "unreachable", "unparsable"}

FullySanitized(data) ==
    /\ data.total_years_experience.t = "float"
    /\ data.metrics_bullet_count.t = "int"
    /\ data.skills_with_years.t = "dict"
    /\ \A i \in 1..Len(data.skills_with_years.dict) :
          data.skills_with_years.dict[i].years.t = "float"
    /\ data.jd_requirement_matches.t \in {"absent", "list"}

\* C12: with fail_on_unavailable the call raises the service-unavailable
\* error whenever the service is unavailable, unreachable or answers with an
\* unparsable payload; without it the call returns exactly the zero-valued
\* sentinel in those cases; what is returned is never partially sanitized.
C12_ExtractionFailureModes ==
    extractOut # NullRec =>
        /\ (ServiceFailed /\ extractIn.fail_on_unavailable)
           => extractOut.kind = "raised"
        /\ (ServiceFailed /\ ~extractIn.fail_on_unavailable)
           => extractOut = Returned(ZeroFacts)
        /\ extractOut.kind = "returned"
           => extractOut.data = ZeroFacts \/ FullySanitized(extractOut.data)

\* C13: shortlisted is a prefix of all_candidates, max(1, N // 10) long for
\* N > 0 candidates and empty for none.
C13_ShortlistSize ==
    results # NoResults =>
        LET N == Len(results.all_candidates)
            k == Len(results.shortlisted)
        IN  /\ k = IF N = 0 THEN 0 ELSE IF N \div 10 >= 1 THEN N \div 10 ELSE 1
            /\ results.shortlisted = SubSeq(results.all_candidates, 1, k)
            /\ results.shortlisted_count = k

C13_Witness ==
    /\ results # NoResults
    /\ Len(results.all_candidates) >= 20
    /\ Len(results.shortlisted) = 2
    /\ results.shortlisted[2] = results.all_candidates[2]

\* C14: all_candidates is sorted by score, highest first, and candidates
\* of equal score keep the order in which they were stored.
C14_SortedAndStable ==
    results # NoResults =>
        \A i, j \in 1..Len(results.all_candidates) :
            i < j => LET a == results.all_candidates[i]
                         b == results.all_candidates[j]
                     IN  /\ a.match_score >= b.match_score
                         /\ a.match_score = b.match_score => a.id < b.id

\* The four reported components, added up (in tenths of a point).
BreakdownSum(breakdown) ==
    breakdown.skill_depth + breakdown.jd_requirements
        + breakdown.experience + breakdown.impact

\* C15: the sum of the four reported breakdown components differs from
\* final_score by at most 1.
C15_BreakdownSumsToScore ==
    scoreOut # NoScore =>
        LET gap == BreakdownSum(scoreOut.breakdown) - 10 * scoreOut.final_score
        IN  gap <= 10 /\ gap >= -10

\* The components and the total are rounded apart.
C15_Witness ==
    /\ scoreOut # NoScore
    /\ BreakdownSum(scoreOut.breakdown) - 10 * scoreOut.final_score = 4

\* C16: hallucination_count + verified_requirements <= total_requirements,
\* and a match with is_met = false is counted in neither of the two.
C16_CountsBounded ==
    scoreOut # NoScore =>
        LET matches == scoreIn.candidate.jd_requirement_matches
            met     == {i \in 1..Len(matches) : matches[i].is_met}
        IN  /\ scoreOut.total_requirements = Len(matches)
            /\ scoreOut.hallucination_count + scoreOut.verified_requirements
                  <= scoreOut.total_requirements
            /\ scoreOut.hallucination_count + scoreOut.verified_requirements
                  <= Cardinality(met)

\* One verified match, one hallucinated match and one match that is not met.
C16_Witness ==
    /\ scoreOut # NoScore
    /\ scoreOut.verified_requirements = 1
    /\ scoreOut.hallucination_count = 1
    /\ scoreOut.total_requirements = 3
    /\ \E i \in 1..3 : ~scoreIn.candidate.jd_requirement_matches[i].is_met

\* The required skills that some candidate skill key matches, either way.
CoveredSkills == MatchedKo(scoreIn.candidate, scoreIn.required_skills)

BelowExperienceFloor ==
    scoreIn.candidate.total_years_experience < scoreIn.min_experience - 1

CreatedFor(job_id) ==
    {created[i].company_id : i \in {k \in 1..Len(created) : created[k].id = job_id}}

\* C19: after any sequence of tracker calls, get_job(job_id, company_id)
\* returns a job only if that job was created with the same company_id, and
\* get_company_jobs(company_id) returns exactly the tracked jobs created
\* with that company_id.
C19_TenantIsolation ==
    \A company_id \in Companies :
        /\ \A job_id \in JobIds :
              get_job(jobs, job_id, company_id) # NullRec =>
                  /\ get_job(jobs, job_id, company_id).id = job_id
                  /\ CreatedFor(job_id) = {company_id}
        /\ LET listed == get_company_jobs(jobs, company_id)
           IN  /\ \A i, j \in 1..Len(listed) : i # j => listed[i].id # listed[j].id
               /\ {listed[i] : i \in 1..Len(listed)} =
                    {jobs[i] : i \in {k \in 1..Len(jobs) :
                                        CreatedFor(jobs[k].id) = {company_id}}}

\* Two companies have a tracked job each after cleanup_old_jobs removed an
\* older job, and each job is returned to its own company only.
C19_Witness ==
    /\ Len(created) > Len(jobs)
    /\ \E i, j \in 1..Len(jobs) :
          /\ jobs[i].company_id # jobs[j].company_id
          /\ get_job(jobs, jobs[i].id, jobs[j].company_id) = NullRec
          /\ get_job(jobs, jobs[i].id, jobs[i].company_id) = jobs[i]
          /\ get_company_jobs(jobs, jobs[j].company_id) = <<jobs[j]>>

\* The matches the claim calls hallucinations: is_met with no citation given,
\* or with a citation that is not a substring of the normalized resume text.
ClaimedHallucinations(matches, raw_resume_text) ==
    {i \in 1..Len(matches) :
        /\ matches[i].is_met
        /\ \/ matches[i].citation_quote \in {NullText, <<>>}
           \/ ~IsSubstring(NormalizeText(matches[i].citation_quote),
                           NormalizeText(raw_resume_text))}

\* C20: for every list of requirement matches and every resume text, the
\* empty one included, hallucination_count is the number of is_met matches
\* whose citation is missing or not found in the normalized resume text.
C20_HallucinationCount ==
    scoreOut # NoScore =>
        scoreOut.hallucination_count =
            Cardinality(ClaimedHallucinations(scoreIn.candidate.jd_requirement_matches,
                                              scoreIn.raw_resume_text))

\* The same statement for the texts on which the verification loop runs.
C20_NonEmptyText ==
    (scoreOut # NoScore /\ scoreIn.raw_resume_text # <<>>) =>
        scoreOut.hallucination_count =
            Cardinality(ClaimedHallucinations(scoreIn.candidate.jd_requirement_matches,
                                              scoreIn.raw_resume_text))

\* C21: any two calls that pass the rate limiter are at least min_interval
\* apart, also when several coroutines sleep in wait_if_needed at once.
C21_CallsSpaced ==
    \A i, j \in 1..Len(calls) : i < j => calls[j] - calls[i] >= MinInterval

\* The advance operations performed so far.
AdvanceCount == SumSeq([r \in Resumes |-> rs[r].advanced])

\* C22: the progress counter is only ever incremented, never overwritten with
\* a read or recomputed value: it never decreases and always equals the
\* number of advance operations performed so far.
C22_AtomicProgress ==
    /\ [](processed_resumes = AdvanceCount)
    /\ [][processed_resumes' >= processed_resumes]_vars

\* The same statement for the resume tasks, which advance the counter with
\* one UPDATE ... SET processed_resumes = processed_resumes + 1.
C22_TasksIncrement ==
    /\ [](mode = "celery" => processed_resumes = AdvanceCount)
    /\ [][mode = "celery" => processed_resumes' >= processed_resumes]_vars

\* The keys of a mapping that substring-match req one way or the other.
SubstringKeys(req, skills) ==
    {i \in 1..Len(skills) :
        IsSubstring(req, skills[i][1]) \/ IsSubstring(skills[i][1], req)}

\* C23: _fuzzy_match_skill returns the lower-cased required skill with its
\* years whenever that is a key; otherwise a key that contains it or is
\* contained in it, with that key's years; and (null, 0) exactly when no key
\* is one or the other.
C23_FuzzyMatch ==
    matchOut # NullRec =>
        LET req    == Lower(matchIn.required)
            skills == matchIn.skills
            out    == matchOut.direct
        IN  /\ (\E i \in 1..Len(skills) : skills[i][1] = req)
                  => \E i \in 1..Len(skills) : skills[i] = <<req, out[2]>> /\ out[1] = req
            /\ (~\E i \in 1..Len(skills) : skills[i][1] = req)
                  => \/ \E i \in SubstringKeys(req, skills) : out = skills[i]
                     \/ out = NoMatch
            /\ out = NoMatch <=> SubstringKeys(req, skills) = {}

\* The required skill "py" is a key that comes after the key "p", which
\* matches it as a substring.
C23_Witness ==
    /\ matchOut # NullRec
    /\ matchIn.required = <<"P", "Y">>
    /\ matchIn.skills = <<<<(<<"p">>), 1>>, <<(<<"p", "y">>), 6>>>>
    /\ matchOut.direct = <<(<<"p", "y">>), 6>>

\* C24: the skill floor counts a required skill as present exactly when the
\* scorer's _fuzzy_match_skill finds a match for it in the lower-cased
\* mapping.
C24_SameMatcher ==
    matchOut # NullRec => (matchOut.present <=> matchOut.scorer # NoMatch)

\* Only the direction `key in required` matches, and both sites see it.
C24_Witness ==
    /\ matchOut # NullRec
    /\ matchIn.required = <<"j", "s">>
    /\ matchIn.skills = <<<<(<<"P", "y">>), 1>>, <<(<<"j">>), 6>>>>
    /\ matchOut.present
    /\ matchOut.scorer = <<(<<"j">>), 6>>

\* The nearest integer of the rational x, a tie going up.
RoundHalfUp(x) == (2 * x[1] + x[2]) \div (2 * x[2])

\* C25: final_score is the sum of the four unrounded components rounded to
\* the nearest integer, a fractional part of exactly .5 being rounded up.
C25_RoundsHalfUp ==
    scoreOut # NoScore => scoreOut.final_score = RoundHalfUp(scoreOut.raw)

\* The same statement for the sums that are not half-way between two
\* integers.
C25_NearestInteger ==
    (scoreOut # NoScore /\ (2 * scoreOut.raw[1]) % scoreOut.raw[2] # 0)
        => scoreOut.final_score = RoundHalfUp(scoreOut.raw)

\* The resumes whose applicant record is stored for the bulk job.
PersistedIds ==
    {applicants[i].rid : i \in {k \in 1..Len(applicants) : applicants[k].job_id = JobId}}

\* C26: once every resume task and every aggregation task has finished, the
\* stored results list every applicant record persisted for the job: an
\* aggregation that read an older set of applicants does not overwrite the
\* results of a newer one.
C26_ResultsComplete ==
    Quiescent =>
        /\ results # NoResults
        /\ {results.all_candidates[i].id : i \in 1..Len(results.all_candidates)}
             = PersistedIds

\* Resume r2 leaves its duplicate pre-check, with the email e found in its
\* text, while the record of resume r1, in whose text e was found as well,
\* is stored.
PreCheckAfterPersist(r1, r2) ==
    /\ r1 # r2
    /\ rs[r1].outcome = "persisted"
    /\ rs[r1].text_email # Null
    /\ rs[r2].pc = "queued"
    /\ rs'[r2].pc # "queued"
    /\ rs'[r2].text_email = rs[r1].text_email

\* C27: once a resume in whose text the email e was pre-scanned is persisted,
\* every later resume of the job with e in its text is caught by the
\* duplicate pre-check and skipped before any extraction call, whatever
\* email the extraction returned for the first one.
C27_LaterResumeCaught ==
    [][\A r1, r2 \in Resumes :
          PreCheckAfterPersist(r1, r2)
          => /\ rs'[r2].outcome = "duplicate"
             /\ rs'[r2].extract_calls = 0]_vars

\* The same statement when the extraction returned the pre-scanned email for
\* the first resume.
C27_SameEmailStored ==
    [][\A r1, r2 \in Resumes :
          (/\ PreCheckAfterPersist(r1, r2)
           /\ \E i \in RowsOf(r1) : applicants[i].email = rs[r1].text_email)
          => /\ rs'[r2].outcome = "duplicate"
             /\ rs'[r2].extract_calls = 0]_vars

\* A citation that is the empty string or consists of whitespace only.
BlankCitation(citation) ==
    /\ citation # NullText
    /\ \A i \in 1..Len(citation) : IsSpace(citation[i])

\* C28: a requirement match whose citation is empty or whitespace only is
\* never counted as verified and never adds to the JD-requirements score,
\* whatever the resume text.
C28_BlankCitationUnverified ==
    scoreOut # NoScore =>
        LET matches == scoreIn.candidate.jd_requirement_matches
            others  == {i \in 1..Len(matches) :
                           matches[i].is_met /\ ~BlankCitation(matches[i].citation_quote)}
        IN  /\ scoreOut.verified_requirements <= Cardinality(others)
            /\ others = {} => scoreOut.breakdown.jd_requirements = 0

\* The same statement for the empty citation alone.
C28_EmptyCitationUnverified ==
    scoreOut # NoScore =>
        LET matches == scoreIn.candidate.jd_requirement_matches
            others  == {i \in 1..Len(matches) :
                           matches[i].is_met /\ matches[i].citation_quote # <<>>}
        IN  /\ scoreOut.verified_requirements <= Cardinality(others)
            /\ others = {} => scoreOut.breakdown.jd_requirements = 0

\* The batch result process_resumes_background stored.
BackgroundDone == mode = "background" /\ bg.pc = "done"

\* C29: a knocked-out candidate (score 0, rejected, no breakdown) is never in
\* the shortlisted list of a batch, also when every candidate of the batch
\* was knocked out.
C29_ShortlistOfScored ==
    BackgroundDone =>
        \A i \in 1..Len(results.shortlisted) :
            results.shortlisted[i].breakdown # NullRec

\* C30: in every batch result of process_resumes_background, total_processed
\* is the number of entries of all_candidates and equals knocked_out +
\* scored, also when persisting a candidate failed.
C30_CountsAgree ==
    BackgroundDone =>
        /\ results.total_processed = Len(results.all_candidates)
        /\ results.total_processed = results.knocked_out + results.scored

\* The same statement for the batches in which every commit succeeded.
C30_WhenAllPersisted ==
    (BackgroundDone /\ \A r \in Resumes : rs[r].outcome = "error" => rs[r].facts = NullRec) =>
        /\ results.total_processed = Len(results.all_candidates)
        /\ results.total_processed = results.knocked_out + results.scored

====
